---- MODULE Spec2Model ----
(***************************************************************************)
(* A model of temporal-tui-rs: the list view (WorkflowTableWidget) and the *)
(* detail view (WorkflowWidget), each with its background fetch task fed   *)
(* by an mpsc channel, driven by the main task of App::run.                *)
(*                                                                         *)
(* Every step is one lock-protected operation or one await of the source:  *)
(* the fetch tasks and the main task interleave at exactly those points.   *)
(***************************************************************************)
EXTENDS Integers, Sequences, FiniteSets, TLC

(* ------------------------------ bounds --------------------------------- *)
\* Number of view controllers constructed in one run (1 list, 2 detail, 3 list).
MaxViews == 3
\* Capacity of the request channel; the source uses mpsc::channel(32).
ChannelCapacity == 1
\* Requests enqueued in one run, over all controllers.
MaxSent == 4
\* Rows carried by one service response.
MaxPage == 1
\* Rows the service ever lets one collection hold.
MaxRows == 2
\* Distinct non-empty continuation tokens the service hands out.
MaxToken == 1
\* Characters the operator types into one query (its sentinel space not
\* counted), and how far below zero a wrapped cursor is followed.
MaxQueryLen == 2

(* ------------------------------ values --------------------------------- *)
\* Option<T>: None is the empty tuple, Some(x) the one-element tuple.
None == <<>>
Some(x) == <<x>>
IsSome(o) == o # <<>>
Unwrap(o) == o[1]

\* i >= j over usize values: a negative number v stands for 2^64 + v (0 - 1
\* without overflow checks is usize::MAX, written -1).
UGe(i, j) == IF (i < 0) = (j < 0) THEN i >= j ELSE i < 0
\* n - 1 in wrapping (release) arithmetic.
WrapSubOne(n) == n - 1

\* Row identities the service can return, and a row that does not convert
\* (TryFrom fails: no execution, no type, unknown enum value).
RowIds == {"A", "B"}
BadRow == "malformed"
\* Page tokens: 0 is the empty byte string.
EmptyToken == 0
Tokens == 0..MaxToken

\* Keys the operator types into the query (ASCII: one byte per character,
\* so String::len, insert and remove index characters).
QueryChars == {"a", " "}
\* "Enter a query...".len(), what QueryInput renders without a query.
PlaceholderLen == 16

Views == 1..MaxViews
\* The two key handlers of the source.  App::handle_event matches the key
\* itself: Esc quits, Enter opens the selected workflow, every other key goes
\* to handle_normal_key, which serves the list view only.  The Keybindable
\* protocol hands the key to the view's handle_key and installs the view that
\* returns.
Dispatchers == {"App", "Keybindable"}
\* App starts on the list view; Enter and Esc alternate list and detail.
IsTable(c) == c % 2 = 1
IsWorkflow(c) == c % 2 = 0

\* Sequences over S of length at most n.
RECURSIVE SeqsUpTo(_, _)
SeqsUpTo(S, n) ==
    IF n = 0 THEN {<<>>}
    ELSE LET shorter == SeqsUpTo(S, n - 1)
         IN  shorter \cup {Append(s, x) : s \in {t \in shorter : Len(t) = n - 1}, x \in S}

IsPrefix(s, t) == Len(s) <= Len(t) /\ SubSeq(t, 1, Len(s)) = s

\* LoadingState (Error carries its message).
ErrListRequest == "Error(list workflow executions request failed)"
ErrInvalidExecution == "Error(invalid workflow execution)"
ErrBothRequests == "Error(fetch workflow requests failed)"
ErrDescribeRequest == "Error(describe workflow execution request failed)"
ErrHistoryRequest == "Error(get workflow execution history request failed)"
ErrUnknownExecution == "Error(unknown workflow execution)"
ErrorStates == {ErrListRequest, ErrInvalidExecution, ErrBothRequests,
                ErrDescribeRequest, ErrHistoryRequest, ErrUnknownExecution}
LoadingState == {"Idle", "Reloaded", "Loading", "PageLoaded"} \cup ErrorStates

\* Message, tagged with its position n in the controller's submission order.
Reload(n) == [kind |-> "Reload", token |-> EmptyToken, n |-> n]
LoadPage(t, n) == [kind |-> "LoadPage", token |-> t, n |-> n]

(* ------------------------------- state --------------------------------- *)
VARIABLES
    ctl,               \* [Views -> widget state shared by the view and its task]
    chan,              \* [Views -> messages queued in the mpsc channel]
    task,              \* [Views -> the fetch task: pc, message in hand, describe result]
    svc,               \* [Views -> RPCs in flight, requests sent/served, last response]
    main,              \* the main task of App::run: pc and locals of the key handler
    view,              \* the controller of the active view
    overflow_checks,   \* build profile: TRUE panics on usize underflow, FALSE wraps
    dispatch           \* who matches a key: "App" or the view's "Keybindable"

vars == <<ctl, chan, task, svc, main, view, overflow_checks, dispatch>>

\* WorkflowTableWidget::new / WorkflowWidget::new; born is FALSE until then.
\* query and cursor are the list widget's QueryInput (None: nothing entered),
\* mode its Mode.
Fresh(born, id) ==
    [born |-> born, workflow_id |-> id, sender |-> FALSE,
     rows |-> <<>>, token |-> None, loading_state |-> "Idle",
     selected |-> None, last_reload |-> None,
     query |-> None, cursor |-> 0, mode |-> "Normal",
     execution |-> None, display_event |-> None]
WorkflowTableWidgetNew == Fresh(TRUE, None)
WorkflowWidgetNew(workflow_id) == Fresh(TRUE, Some(workflow_id))

NoMessage == [kind |-> "None", token |-> EmptyToken, n |-> 0]
\* svc[c].resp: the response the task received last (for a Reload of the
\* detail widget the history response, with the describe result beside it).
\* Its query is the filter text the request carried.
NoResponse ==
    [ok |-> FALSE, rows |-> <<>>, token |-> EmptyToken, clear |-> FALSE, n |-> 0,
     describe |-> "none", query |-> <<>>]
\* query: the filter text of the list RPC the task has issued.
TaskNotSpawned == [pc |-> "none", msg |-> NoMessage, r1 |-> "none", query |-> <<>>]
\* The task at receiver.recv().await, holding no message.
TaskSpawned == [TaskNotSpawned EXCEPT !.pc = "recv"]
MainIdle == [pc |-> "idle", msg |-> NoMessage, loading_next |-> FALSE, sel |-> None]

\* App::new: the list view is constructed; nothing runs yet.
Init ==
    /\ ctl = [c \in Views |-> IF c = 1 THEN WorkflowTableWidgetNew ELSE Fresh(FALSE, None)]
    /\ chan = [c \in Views |-> <<>>]
    /\ task = [c \in Views |-> TaskNotSpawned]
    /\ svc = [c \in Views |-> [inflight |-> 0, sent |-> 0, served |-> 0, resp |-> NoResponse]]
    /\ main = [MainIdle EXCEPT !.pc = "boot"]
    /\ view = 1
    /\ overflow_checks \in BOOLEAN
    /\ dispatch \in Dispatchers

(* -------------------- widget operations (pure parts) ------------------- *)
\* Variant: every state written stamps last_reload.
StampLastReloadAlways(s, loading_state, now) == [s EXCEPT !.last_reload = Some(now)]

\* set_loading_state, first lock: last_reload is written for Reloaded only.
StampLastReload(s, loading_state, now) ==
    IF loading_state = "Reloaded" THEN [s EXCEPT !.last_reload = Some(now)] ELSE s

\* Variant: Loading is never stored.
StoreLoadingStateSkipsLoading(s, loading_state) ==
    IF loading_state = "Loading" THEN s ELSE [s EXCEPT !.loading_state = loading_state]

\* set_loading_state, second lock: the state itself.
StoreLoadingState(s, loading_state) == [s EXCEPT !.loading_state = loading_state]

\* set_loading_state for a state other than Reloaded (one lock taken).
SetLoadingState(s, loading_state, now) ==
    StoreLoadingState(StampLastReload(s, loading_state, now), loading_state)

\* response.executions.into_iter().map(TryInto::try_into).collect():
\* Err as soon as one row does not convert.
ConvertExecutions(rows) ==
    IF \E i \in 1..Len(rows) : rows[i] = BadRow THEN None ELSE Some(rows)

\* Variant: the rows are never cleared.
OnLoadKeepsRows(s, executions, next_page_token, clear) ==
    LET all == s.rows \o executions
    IN  [s EXCEPT !.token = Some(next_page_token),
                  !.rows = all,
                  !.selected = IF all # <<>> /\ clear THEN Some(0) ELSE @]

\* Variant: the selection is left to the operator.
OnLoadNeverSelects(s, executions, next_page_token, clear) ==
    LET base == IF clear THEN <<>> ELSE s.rows
    IN  [s EXCEPT !.token = Some(next_page_token),
                  !.rows = base \o executions]

\* WorkflowTableWidget::on_load after a successful conversion, under one
\* write lock of the state.
OnLoad(s, executions, next_page_token, clear) ==
    LET base == IF clear THEN <<>> ELSE s.rows
        all  == base \o executions
    IN  [s EXCEPT !.token = Some(next_page_token),
                  !.rows = all,
                  !.selected = IF all # <<>> /\ clear THEN Some(0) ELSE @]

\* HistoryWidget::extend_from_history: events that do not convert are skipped.
ExtendFromHistory(events, history) ==
    events \o SelectSeq(history, LAMBDA e : e # BadRow)

\* WorkflowWidget::on_workflow_execution_load, the write at its end.
OnWorkflowExecutionLoad(s, n) == [s EXCEPT !.execution = Some(n)]

\* Variant: the new events are put in front of the loaded ones.
OnWorkflowHistoryLoadInFront(s, history, next_page_token, clear) ==
    LET cleared == IF clear THEN <<>> ELSE s.rows
        tok0    == IF clear THEN None ELSE s.token
        tok     == IF next_page_token # EmptyToken THEN Some(next_page_token) ELSE tok0
        all     == ExtendFromHistory(<<>>, history) \o cleared
    IN  [s EXCEPT !.token = tok,
                  !.rows = all,
                  !.selected = IF all # <<>> /\ clear THEN Some(0) ELSE @]

\* WorkflowWidget::on_workflow_history_load, under one write lock.
OnWorkflowHistoryLoad(s, history, next_page_token, clear) ==
    LET cleared == IF clear THEN <<>> ELSE s.rows
        tok0    == IF clear THEN None ELSE s.token
        tok     == IF next_page_token # EmptyToken THEN Some(next_page_token) ELSE tok0
        all     == ExtendFromHistory(cleared, history)
    IN  [s EXCEPT !.token = tok,
                  !.rows = all,
                  !.selected = IF all # <<>> /\ clear THEN Some(0) ELSE @]

\* is_on_last_row: i >= len - 1.  The subtraction underflows on an empty
\* collection: a panic with overflow checks, usize::MAX without.
SubOneUnderflows(s) == IsSome(s.selected) /\ Len(s.rows) = 0
IsOnLastRow(s) ==
    IsSome(s.selected) /\ UGe(Unwrap(s.selected), WrapSubOne(Len(s.rows)))

\* next_row, the index it selects from the selection it read.
NextIndex(selected, len) ==
    IF IsSome(selected)
    THEN IF UGe(Unwrap(selected), WrapSubOne(len)) THEN 0 ELSE Unwrap(selected) + 1
    ELSE 0

\* Variant: index 0 stays where it is.
PreviousIndexStops(selected, len) ==
    IF IsSome(selected)
    THEN IF Unwrap(selected) = 0 THEN 0 ELSE Unwrap(selected) - 1
    ELSE 0

\* previous_row, the index it selects; only Some(0) subtracts from len.
PreviousIndex(selected, len) ==
    IF IsSome(selected)
    THEN IF Unwrap(selected) = 0 THEN WrapSubOne(len) ELSE Unwrap(selected) - 1
    ELSE 0

(* ------------------------------ QueryInput ----------------------------- *)
\* str::trim on a sequence of characters.
RECURSIVE TrimStart(_)
TrimStart(q) == IF q # <<>> /\ Head(q) = " " THEN TrimStart(Tail(q)) ELSE q
RECURSIVE TrimEnd(_)
TrimEnd(q) == IF q # <<>> /\ q[Len(q)] = " " THEN TrimEnd(SubSeq(q, 1, Len(q) - 1)) ELSE q
Trim(q) == TrimEnd(TrimStart(q))

\* Variant: the text is sent as typed, sentinel space included.
QueryUntrimmed(s) == IF IsSome(s.query) THEN Unwrap(s.query) ELSE <<>>

\* QueryInput::query
Query(s) == IF IsSome(s.query) THEN Trim(Unwrap(s.query)) ELSE <<>>

\* String::pop, String::insert(idx, ch), String::remove(idx); idx counts from 0.
Pop(q) == SubSeq(q, 1, Len(q) - 1)
Insert(q, idx, ch) == SubSeq(q, 1, idx) \o <<ch>> \o SubSeq(q, idx + 1, Len(q))
Remove(q, idx) == SubSeq(q, 1, idx) \o SubSeq(q, idx + 2, Len(q))

\* What a key leaves in the QueryInput, or that handling it panicked.
Edited(query, cursor) == [query |-> query, cursor |-> cursor, panicked |-> FALSE]
EditPanics(s) == [query |-> s.query, cursor |-> s.cursor, panicked |-> TRUE]

\* handle_key, KeyCode::Char(c): c goes in front of the sentinel space when
\* the cursor is on it, else String::insert at the cursor (which panics
\* beyond the end of the string).
HandleChar(s, c) ==
    IF IsSome(s.query)
    THEN LET query == Unwrap(s.query)
         IN  IF s.cursor = Len(query) - 1
             THEN Edited(Some(Pop(query) \o <<c, " ">>), s.cursor + 1)
             ELSE IF s.cursor \in 0..Len(query)
             THEN Edited(Some(Insert(query, s.cursor, c)), s.cursor + 1)
             ELSE EditPanics(s)
    ELSE Edited(Some(<<c, " ">>), 1)

\* self.query.take_if(|v| v.len() == 1)
TakeIfLenOne(query) == IF Len(query) = 1 THEN None ELSE Some(query)

\* handle_key, KeyCode::Backspace: with the cursor on the sentinel the
\* character before it goes, else String::remove at the cursor (which panics
\* at or beyond the end); then cursor -= 1, which underflows from 0.
HandleBackspace(s, checks) ==
    IF IsSome(s.query)
    THEN LET query == Unwrap(s.query)
         IN  IF Len(query) > 1
             THEN IF s.cursor = Len(query) - 1
                  THEN Edited(TakeIfLenOne(Pop(Pop(query)) \o <<" ">>), s.cursor - 1)
                  ELSE IF s.cursor \in 0..(Len(query) - 1)
                  THEN IF s.cursor = 0 /\ checks
                       THEN EditPanics(s)
                       ELSE Edited(TakeIfLenOne(Remove(query, s.cursor)),
                                   WrapSubOne(s.cursor))
                  ELSE EditPanics(s)
             ELSE Edited(TakeIfLenOne(query), s.cursor)
    ELSE Edited(None, s.cursor)

\* handle_key, KeyCode::Left: cursor > 0 is an unsigned comparison.
HandleLeft(s) ==
    IF IsSome(s.query) /\ s.cursor # 0
    THEN Edited(s.query, s.cursor - 1)
    ELSE Edited(s.query, s.cursor)

\* handle_key, KeyCode::Right: cursor < query.len().
HandleRight(s) ==
    IF IsSome(s.query) /\ s.cursor \in 0..(Len(Unwrap(s.query)) - 1)
    THEN Edited(s.query, s.cursor + 1)
    ELSE Edited(s.query, s.cursor)

\* Widget for &QueryInput: the slices [..cursor], [cursor..cursor + 1] and
\* [cursor + 1..] of the query, or of the placeholder without one, panic
\* unless cursor + 1 <= len.
RenderQueryPanics(s) ==
    LET len == IF IsSome(s.query) THEN Len(Unwrap(s.query)) ELSE PlaceholderLen
    IN  ~(s.cursor \in 0..(len - 1))

(* ------------------------- the remote service -------------------------- *)
PageRows == SeqsUpTo(RowIds \cup {BadRow}, MaxPage)

\* What list_workflow_executions / get_workflow_execution_history can return
\* when the collection has room for `room` more rows: Err, or Ok with a page
\* of rows and a next_page_token.
Responses(room) ==
    {[ok |-> FALSE, rows |-> <<>>, token |-> EmptyToken]} \cup
    {[ok |-> TRUE, rows |-> r, token |-> t] :
        r \in {x \in PageRows : Len(x) <= room}, t \in Tokens}

\* What describe_workflow_execution can return: Err, Ok without
\* workflow_execution_info, Ok with a field that does not convert, Ok.
DescribeResults == {"err", "unknown", "invalid", "ok"}

Room(s, clear) == MaxRows - (IF clear THEN 0 ELSE Len(s.rows))

(* --------------------------- the fetch tasks --------------------------- *)
Alive == main.pc \notin {"panicked", "quit"}

\* A replaced view is dropped by the App; its task keeps the Arcs alive, but
\* nothing reads what it writes there any more.  The model follows such a
\* task (task, chan, the counters of svc) and no longer the widget data.
Dropped == [Fresh(TRUE, None) EXCEPT !.sender = TRUE]
Write(c, s) == [ctl EXCEPT ![c] = IF c = view THEN s ELSE Dropped]

\* load_next_page keeps its read guard (state / workflow) across the await
\* of send, and the detail widget's is_on_last_row keeps one across its call
\* of get_selected_history_event; a writer of that lock waits as long as it
\* is held.
ReadGuardHeld(c) == view = c /\ main.pc \in {"lnp_send", "iol_read"}

\* The std RwLock a task step writes is free.
CanWrite(c) == ~ReadGuardHeld(c)

Recorded(c, response, clear, n) ==
    IF c = view
    THEN [ok |-> response.ok, rows |-> response.rows, token |-> response.token,
          clear |-> clear, n |-> n, describe |-> task[c].r1, query |-> task[c].query]
    ELSE NoResponse

\* Variant: the next message is received while an RPC is still in flight.
TaskRecvEarly(c) ==
    /\ Alive
    /\ task[c].pc \in {"recv", "rpc"}
    /\ chan[c] # <<>>
    /\ task' = [task EXCEPT ![c].pc = "start", ![c].msg = Head(chan[c])]
    /\ chan' = [chan EXCEPT ![c] = Tail(@)]
    /\ UNCHANGED <<ctl, svc, main, view, overflow_checks, dispatch>>

\* receiver.recv().await
TaskRecv(c) ==
    /\ Alive
    /\ task[c].pc = "recv"
    /\ chan[c] # <<>>
    /\ task' = [task EXCEPT ![c].pc = "start", ![c].msg = Head(chan[c])]
    /\ chan' = [chan EXCEPT ![c] = Tail(@)]
    /\ UNCHANGED <<ctl, svc, main, view, overflow_checks, dispatch>>

\* set_loading_state(Loading), then the first RPC of the request is issued;
\* the list task reads the query text for it.  The list widget keeps
\* loading_state under the state lock, the detail widget under a lock of its
\* own.
TaskStart(c) ==
    /\ Alive
    /\ task[c].pc = "start"
    /\ IsTable(c) => CanWrite(c)
    /\ ctl' = Write(c, SetLoadingState(ctl[c], "Loading", task[c].msg.n))
    /\ svc' = [svc EXCEPT ![c].inflight = @ + 1]
    /\ task' = [task EXCEPT ![c].pc =
                    IF IsWorkflow(c) /\ task[c].msg.kind = "Reload" THEN "describe" ELSE "rpc",
                            ![c].query = IF IsTable(c) THEN Query(ctl[c]) ELSE <<>>]
    /\ UNCHANGED <<chan, main, view, overflow_checks, dispatch>>

\* on_err: set_loading_state(Error(..)); the panic follows (TaskPanic).
OnErr(c, err) ==
    /\ IsTable(c) => CanWrite(c)
    /\ ctl' = Write(c, SetLoadingState(ctl[c], err, task[c].msg.n))
    /\ task' = [task EXCEPT ![c].pc = "err"]

\* fetch_workflows: the match arm on the result of the list RPC, up to and
\* including on_load.
OnListResult(c, response) ==
    LET clear == task[c].msg.kind = "Reload"
    IN  /\ svc' = [svc EXCEPT ![c].inflight = @ - 1,
                              ![c].resp = Recorded(c, response, clear, task[c].msg.n),
                              ![c].served =
                                  IF ConvertExecutions(response.rows) = None \/ ~response.ok
                                  THEN @ + 1 ELSE @]
        /\ IF ~response.ok
           THEN OnErr(c, ErrListRequest)
           ELSE IF ConvertExecutions(response.rows) = None
           THEN OnErr(c, ErrInvalidExecution)
           ELSE /\ CanWrite(c)
                /\ ctl' = Write(c, OnLoad(ctl[c], Unwrap(ConvertExecutions(response.rows)),
                                    response.token, clear))
                /\ task' = [task EXCEPT ![c].pc = "loaded"]

\* fetch_workflows: the list RPC returns.
TableRpcReturns(c) ==
    /\ Alive
    /\ IsTable(c)
    /\ task[c].pc = "rpc"
    /\ \E response \in Responses(Room(ctl[c], task[c].msg.kind = "Reload")) :
            OnListResult(c, response)
    /\ UNCHANGED <<chan, main, view, overflow_checks, dispatch>>

\* fetch_workflow, Reload: describe_workflow_execution returns and
\* get_workflow_execution_history is issued.
DescribeReturns(c) ==
    /\ Alive
    /\ IsWorkflow(c)
    /\ task[c].pc = "describe"
    /\ \E r1 \in DescribeResults :
         task' = [task EXCEPT ![c].pc = "rpc", ![c].r1 = r1]
    /\ UNCHANGED <<ctl, chan, svc, main, view, overflow_checks, dispatch>>

\* Variant: the describe result is stored before the history result is
\* looked at.
OnReloadResultsEager(c, response) ==
    LET r1 == task[c].r1
    IN  IF r1 = "err" /\ ~response.ok THEN OnErr(c, ErrBothRequests)
        ELSE IF r1 = "err" THEN OnErr(c, ErrDescribeRequest)
        ELSE IF r1 = "unknown" THEN OnErr(c, ErrUnknownExecution)
        ELSE IF r1 = "invalid" THEN OnErr(c, ErrInvalidExecution)
        ELSE IF ~response.ok
        THEN /\ CanWrite(c)
             /\ ctl' = Write(c, SetLoadingState(OnWorkflowExecutionLoad(ctl[c], task[c].msg.n),
                                                ErrHistoryRequest, task[c].msg.n))
             /\ task' = [task EXCEPT ![c].pc = "err"]
        ELSE /\ CanWrite(c)
             /\ ctl' = Write(c, OnWorkflowExecutionLoad(ctl[c], task[c].msg.n))
             /\ task' = [task EXCEPT ![c].pc = "history_load"]

\* The match of fetch_workflow's Reload arm on the two results, up to and
\* including on_workflow_execution_load.
OnReloadResults(c, response) ==
    LET r1 == task[c].r1
    IN  IF r1 = "err" /\ ~response.ok THEN OnErr(c, ErrBothRequests)
        ELSE IF r1 = "err" THEN OnErr(c, ErrDescribeRequest)
        ELSE IF ~response.ok THEN OnErr(c, ErrHistoryRequest)
        ELSE IF r1 = "unknown" THEN OnErr(c, ErrUnknownExecution)
        ELSE IF r1 = "invalid" THEN OnErr(c, ErrInvalidExecution)
        ELSE /\ CanWrite(c)
             /\ ctl' = Write(c, OnWorkflowExecutionLoad(ctl[c], task[c].msg.n))
             /\ task' = [task EXCEPT ![c].pc = "history_load"]

\* The match of fetch_workflow's LoadPage arm: on_workflow_history_load and
\* nothing else (no set_loading_state follows it in the source).
OnPageResult(c, response) ==
    IF ~response.ok THEN OnErr(c, ErrHistoryRequest)
    ELSE /\ CanWrite(c)
         /\ ctl' = Write(c, OnWorkflowHistoryLoad(ctl[c], response.rows, response.token, FALSE))
         /\ task' = [task EXCEPT ![c] = TaskSpawned]

\* fetch_workflow: the match on the result of the history RPC.
OnHistoryResult(c, response) ==
    LET clear == task[c].msg.kind = "Reload"
    IN  /\ svc' = [svc EXCEPT ![c].inflight = @ - 1,
                              ![c].resp = Recorded(c, response, clear, task[c].msg.n),
                              ![c].served =
                                  IF clear /\ response.ok /\ task[c].r1 = "ok"
                                  THEN @ ELSE @ + 1]
        /\ IF clear THEN OnReloadResults(c, response) ELSE OnPageResult(c, response)

\* fetch_workflow: get_workflow_execution_history returns.
HistoryReturns(c) ==
    /\ Alive
    /\ IsWorkflow(c)
    /\ task[c].pc = "rpc"
    /\ \E response \in Responses(Room(ctl[c], task[c].msg.kind = "Reload")) :
            OnHistoryResult(c, response)
    /\ UNCHANGED <<chan, main, view, overflow_checks, dispatch>>

\* on_workflow_history_load has called self.workflow.write() while the main
\* task holds a read guard: the task's thread waits in the lock's queue.
WriterWaits(c) == task[c].pc = "write_wait"

HistoryLoadWaits(c) ==
    /\ Alive
    /\ task[c].pc = "history_load"
    /\ ReadGuardHeld(c)
    /\ task' = [task EXCEPT ![c].pc = "write_wait"]
    /\ UNCHANGED <<ctl, chan, svc, main, view, overflow_checks, dispatch>>

\* on_reload of the detail widget: on_workflow_history_load(response, true).
HistoryLoad(c) ==
    /\ Alive
    /\ task[c].pc \in {"history_load", "write_wait"}
    /\ CanWrite(c)
    /\ ctl' = Write(c, OnWorkflowHistoryLoad(ctl[c], svc[c].resp.rows, svc[c].resp.token, TRUE))
    /\ task' = [task EXCEPT ![c].pc = "loaded"]
    /\ UNCHANGED <<chan, svc, main, view, overflow_checks, dispatch>>

\* The state on_reload / on_page_load sets after the load.
LoadedState(c) == IF task[c].msg.kind = "Reload" THEN "Reloaded" ELSE "PageLoaded"

\* set_loading_state(Reloaded), first lock: last_reload = now.
TaskStamp(c) ==
    /\ Alive
    /\ task[c].pc = "loaded"
    /\ LoadedState(c) = "Reloaded"
    /\ ctl' = Write(c, StampLastReload(ctl[c], "Reloaded", task[c].msg.n))
    /\ task' = [task EXCEPT ![c].pc = "stamped"]
    /\ UNCHANGED <<chan, svc, main, view, overflow_checks, dispatch>>

\* set_loading_state, the write of the state that ends a served request.
TaskStore(c) ==
    /\ Alive
    /\ \/ task[c].pc = "stamped"
       \/ task[c].pc = "loaded" /\ LoadedState(c) = "PageLoaded"
    /\ IsTable(c) => CanWrite(c)
    /\ ctl' = Write(c, StoreLoadingState(ctl[c], LoadedState(c)))
    /\ task' = [task EXCEPT ![c] = TaskSpawned]
    /\ svc' = [svc EXCEPT ![c].served = @ + 1]
    /\ UNCHANGED <<chan, main, view, overflow_checks, dispatch>>

\* panic!("error") at the end of on_err unwinds the task: the receiver is
\* dropped, and with it whatever the channel still held.
TaskPanic(c) ==
    /\ Alive
    /\ task[c].pc = "err"
    /\ task' = [task EXCEPT ![c] = [TaskNotSpawned EXCEPT !.pc = "panicked"]]
    /\ chan' = [chan EXCEPT ![c] = <<>>]
    /\ UNCHANGED <<ctl, svc, main, view, overflow_checks, dispatch>>

(* ---------------------------- the main task ---------------------------- *)
MainPanicked == [MainIdle EXCEPT !.pc = "panicked"]

\* Requests enqueued so far on the controllers 1..n.
RECURSIVE SentUpTo(_)
SentUpTo(n) == IF n = 0 THEN 0 ELSE svc[n].sent + SentUpTo(n - 1)
\* The operator may still cause a request.
MaySend == SentUpTo(MaxViews) < MaxSent

\* The receiver of the channel is gone: send returns Err.
ChannelClosed(c) == task[c].pc = "panicked"
HasCapacity(c) == Len(chan[c]) < ChannelCapacity

\* sender.unwrap().send(m).await.unwrap() from the main task.  With room the
\* message is queued and the handler goes on at `next`; on a full channel the
\* handler waits at `blocked`; without a sender or a receiver it panics (the
\* record of the panic keeps the message that was not sent).
Send(c, m, next, blocked) ==
    IF ~ctl[c].sender \/ ChannelClosed(c)
    THEN /\ main' = [MainPanicked EXCEPT !.msg = m]
         /\ UNCHANGED <<chan, svc>>
    ELSE IF HasCapacity(c)
    THEN /\ chan' = [chan EXCEPT ![c] = Append(@, m)]
         /\ svc' = [svc EXCEPT ![c].sent = @ + 1]
         /\ main' = next
    ELSE /\ main' = [blocked EXCEPT !.msg = m]
         /\ UNCHANGED <<chan, svc>>

\* Variant: run() spawns the task without installing the sender.
RunKeepsSender(s) == s

\* run(): the channel is created, the sender installed, the task spawned.
Run(s) == [s EXCEPT !.sender = TRUE]

\* run_view / ViewWidget::run on a controller v just constructed as s:
\* run(), then reload().await.
RunView(v, s) ==
    /\ ctl' = [ctl EXCEPT ![view] = Dropped, ![v] = Run(s)]
    /\ task' = [task EXCEPT ![v] = TaskSpawned]
    /\ chan' = [chan EXCEPT ![v] = <<Reload(1)>>]
    /\ svc' = [svc EXCEPT ![view].resp = NoResponse, ![v].sent = 1]
    /\ view' = v
    /\ main' = MainIdle

\* Variant: the task is spawned but no Reload is sent.
AppRunWithoutReload ==
    /\ main.pc = "boot"
    /\ ctl' = [ctl EXCEPT ![view] = Run(@)]
    /\ task' = [task EXCEPT ![view] = TaskSpawned]
    /\ main' = MainIdle
    /\ UNCHANGED <<chan, svc, view, overflow_checks, dispatch>>

\* App::run before its loop: self.run_view().await.
AppRun ==
    /\ main.pc = "boot"
    /\ RunView(view, ctl[view])
    /\ UNCHANGED <<overflow_checks, dispatch>>

\* The expanded event the renderer looks up is not there:
\* self.events.get(index).unwrap() in HistoryWidget::render.
RenderPanics(s) ==
    /\ IsSome(s.execution)
    /\ IsSome(s.display_event)
    /\ ~(Unwrap(s.display_event) \in 0..(Len(s.rows) - 1))

\* interval.tick(): terminal.draw renders the active view.
Tick ==
    /\ main.pc = "idle"
    /\ main' = IF \/ IsWorkflow(view) /\ RenderPanics(ctl[view])
                  \/ IsTable(view) /\ RenderQueryPanics(ctl[view])
               THEN MainPanicked ELSE main
    /\ UNCHANGED <<ctl, chan, task, svc, view, overflow_checks, dispatch>>

\* The keys of view c reach the widget: App::handle_normal_key serves the
\* list view and panics for any other.
Handles(c) == IsTable(c) \/ dispatch = "Keybindable"

\* App::handle_event, Normal mode, Esc: quit() ends the loop of App::run.
KeyEscApp ==
    /\ main.pc = "idle"
    /\ dispatch = "App"
    /\ main' = [MainIdle EXCEPT !.pc = "quit"]
    /\ UNCHANGED <<ctl, chan, task, svc, view, overflow_checks, dispatch>>

\* App::handle_normal_key with a detail view: panic!("not implemented").
KeyNotImplemented ==
    /\ main.pc = "idle"
    /\ ~Handles(view)
    /\ main' = MainPanicked
    /\ UNCHANGED <<ctl, chan, task, svc, view, overflow_checks, dispatch>>

\* The list widget hands its keys to handle_query_key: Keybindable::handle_key
\* looks at the mode, App::handle_normal_key does not.
InQueryMode(c) == IsTable(c) /\ dispatch = "Keybindable" /\ ctl[c].mode = "Query"

\* Ctrl+q: set_mode(Query) from handle_normal_key, set_mode(Normal) from
\* handle_query_key.
KeyToggleQuery ==
    /\ main.pc = "idle"
    /\ IsTable(view)
    /\ ctl' = [ctl EXCEPT ![view].mode = IF InQueryMode(view) THEN "Normal" ELSE "Query"]
    /\ UNCHANGED <<chan, task, svc, main, view, overflow_checks, dispatch>>

\* handle_query_key passes the key to QueryInput::handle_key under the write
\* lock of the query; a panic there ends the main task.
EditQuery(edit) ==
    /\ IF edit.panicked
       THEN main' = MainPanicked /\ UNCHANGED ctl
       ELSE /\ ctl' = [ctl EXCEPT ![view].query = edit.query, ![view].cursor = edit.cursor]
            /\ UNCHANGED main
    /\ UNCHANGED <<chan, task, svc, view, overflow_checks, dispatch>>

\* A character key in Query mode.
KeyQueryChar ==
    /\ main.pc = "idle" /\ InQueryMode(view)
    /\ IsSome(ctl[view].query) => Len(Unwrap(ctl[view].query)) <= MaxQueryLen
    /\ \E c \in QueryChars : EditQuery(HandleChar(ctl[view], c))

\* Backspace in Query mode.
KeyQueryBackspace ==
    /\ main.pc = "idle" /\ InQueryMode(view)
    /\ EditQuery(HandleBackspace(ctl[view], overflow_checks))

\* Left in Query mode.
KeyQueryLeft ==
    /\ main.pc = "idle" /\ InQueryMode(view)
    /\ -ctl[view].cursor < MaxQueryLen
    /\ EditQuery(HandleLeft(ctl[view]))

\* Right in Query mode.
KeyQueryRight ==
    /\ main.pc = "idle" /\ InQueryMode(view)
    /\ EditQuery(HandleRight(ctl[view]))

\* Variant: reload() sets Loading itself.
KeyReloadSetsLoading ==
    /\ main.pc = "idle"
    /\ Handles(view)
    /\ MaySend
    /\ Send(view, Reload(svc[view].sent + 1), MainIdle, [MainIdle EXCEPT !.pc = "reload_send"])
    /\ ctl' = [ctl EXCEPT ![view].loading_state = "Loading"]
    /\ UNCHANGED <<task, view, overflow_checks, dispatch>>

\* Ctrl+r: reload().
KeyReload ==
    /\ main.pc = "idle"
    /\ Handles(view)
    /\ MaySend
    /\ Send(view, Reload(svc[view].sent + 1), MainIdle, [MainIdle EXCEPT !.pc = "reload_send"])
    /\ UNCHANGED <<ctl, task, view, overflow_checks, dispatch>>

\* reload() waiting for capacity is woken.
ReloadSendResumes ==
    /\ main.pc = "reload_send"
    /\ ChannelClosed(view) \/ HasCapacity(view)
    /\ Send(view, main.msg, MainIdle, main)
    /\ UNCHANGED <<ctl, task, view, overflow_checks, dispatch>>

\* j / Down: next_row() up to its first is_on_last_row().
KeyNextRow ==
    /\ main.pc = "idle"
    /\ Handles(view) /\ ~InQueryMode(view)
    /\ MaySend
    /\ IsSome(ctl[view].selected) => Unwrap(ctl[view].selected) \in 0..MaxRows
    /\ main' = IF overflow_checks /\ SubOneUnderflows(ctl[view]) THEN MainPanicked
               ELSE IF IsOnLastRow(ctl[view]) THEN [MainIdle EXCEPT !.pc = "nr_lnp"]
               ELSE [MainIdle EXCEPT !.pc = "nr_loop"]
    /\ UNCHANGED <<ctl, chan, task, svc, view, overflow_checks, dispatch>>

\* j / Down in the detail view, is_on_last_row step by step: first
\* self.workflow.read() ...
IsOnLastRowRead ==
    /\ main.pc = "idle"
    /\ IsWorkflow(view) /\ Handles(view)
    /\ MaySend
    /\ IsSome(ctl[view].selected) => Unwrap(ctl[view].selected) \in 0..MaxRows
    /\ main' = [MainIdle EXCEPT !.pc = "iol_read"]
    /\ UNCHANGED <<ctl, chan, task, svc, view, overflow_checks, dispatch>>

\* ... then get_selected_history_event() takes self.workflow.read() again
\* with the first guard still held, and the comparison follows.  The lock
\* prefers writers: read() waits while a writer is queued.
IsOnLastRowSelected ==
    /\ main.pc = "iol_read"
    /\ ~WriterWaits(view)
    /\ main' = IF overflow_checks /\ SubOneUnderflows(ctl[view]) THEN MainPanicked
               ELSE IF IsOnLastRow(ctl[view]) THEN [MainIdle EXCEPT !.pc = "nr_lnp"]
               ELSE [MainIdle EXCEPT !.pc = "nr_loop"]
    /\ UNCHANGED <<ctl, chan, task, svc, view, overflow_checks, dispatch>>

\* load_next_page() called by next_row: nothing without a token, else the
\* token is sent (the read guard is held until send returns).
LoadNextPage ==
    /\ main.pc = "nr_lnp"
    /\ IF IsSome(ctl[view].token)
       THEN Send(view, LoadPage(Unwrap(ctl[view].token), svc[view].sent + 1),
                 [MainIdle EXCEPT !.pc = "nr_loop", !.loading_next = TRUE],
                 [MainIdle EXCEPT !.pc = "lnp_send"])
       ELSE /\ main' = [MainIdle EXCEPT !.pc = "nr_loop"]
            /\ UNCHANGED <<chan, svc>>
    /\ UNCHANGED <<ctl, task, view, overflow_checks, dispatch>>

\* load_next_page() waiting for capacity is woken.
LoadNextPageSendResumes ==
    /\ main.pc = "lnp_send"
    /\ ChannelClosed(view) \/ HasCapacity(view)
    /\ Send(view, main.msg,
            [MainIdle EXCEPT !.pc = "nr_loop", !.loading_next = TRUE], main)
    /\ UNCHANGED <<ctl, task, view, overflow_checks, dispatch>>

\* The loop of next_row leaves: the list widget when the selection is no
\* longer on the last row, the detail widget also when nothing was sent.
\* While the condition fails the loop only yields.
LoopExits(c) ==
    \/ ~IsOnLastRow(ctl[c])
    \/ IsWorkflow(c) /\ ~main.loading_next

NextRowLoop ==
    /\ main.pc = "nr_loop"
    /\ \/ /\ overflow_checks /\ SubOneUnderflows(ctl[view])
          /\ main' = MainPanicked
       \/ /\ ~(overflow_checks /\ SubOneUnderflows(ctl[view]))
          /\ LoopExits(view)
          /\ main' = [main EXCEPT !.pc = IF IsTable(view) THEN "nr_final" ELSE "nr_sel"]
    /\ UNCHANGED <<ctl, chan, task, svc, view, overflow_checks, dispatch>>

\* get_selected_history_event() of the detail widget, a read of its own.
ReadSelected ==
    /\ main.pc \in {"nr_sel", "pr_sel", "enter_sel"}
    /\ main' = [main EXCEPT !.sel = ctl[view].selected,
                            !.pc = CASE main.pc = "nr_sel" -> "nr_final"
                                     [] main.pc = "pr_sel" -> "pr_final"
                                     [] OTHER -> "enter_final"]
    /\ UNCHANGED <<ctl, chan, task, svc, view, overflow_checks, dispatch>>

\* The selection a handler works from: the list widget reads it under the
\* lock it writes with, the detail widget has read it before.
SelectionRead(c) == IF IsTable(c) THEN ctl[c].selected ELSE main.sel

\* The end of next_row: the new index is computed and selected.
NextRowSelect ==
    /\ main.pc = "nr_final"
    /\ LET selected == SelectionRead(view)
           len == Len(ctl[view].rows)
       IN IF overflow_checks /\ IsSome(selected) /\ len = 0
          THEN main' = MainPanicked /\ UNCHANGED ctl
          ELSE /\ ctl' = [ctl EXCEPT ![view].selected = Some(NextIndex(selected, len))]
               /\ main' = MainIdle
    /\ UNCHANGED <<chan, task, svc, view, overflow_checks, dispatch>>

\* k / Up: previous_row(); the detail widget reads the selection first.
KeyPreviousRow ==
    /\ main.pc = "idle"
    /\ IsSome(ctl[view].selected) => Unwrap(ctl[view].selected) >= 0
    /\ IsWorkflow(view) /\ Handles(view)
    /\ main' = [MainIdle EXCEPT !.pc = "pr_sel"]
    /\ UNCHANGED <<ctl, chan, task, svc, view, overflow_checks, dispatch>>

\* previous_row: the new index is computed and selected.
PreviousRowSelect ==
    /\ \/ main.pc = "pr_final"
       \/ /\ main.pc = "idle" /\ IsTable(view) /\ ~InQueryMode(view)
          /\ IsSome(ctl[view].selected) => Unwrap(ctl[view].selected) >= 0
    /\ LET selected == SelectionRead(view)
           len == Len(ctl[view].rows)
       IN IF overflow_checks /\ selected = Some(0) /\ len = 0
          THEN main' = MainPanicked /\ UNCHANGED ctl
          ELSE /\ ctl' = [ctl EXCEPT ![view].selected = Some(PreviousIndex(selected, len))]
               /\ main' = MainIdle
    /\ UNCHANGED <<chan, task, svc, view, overflow_checks, dispatch>>

\* get_selected_workflow_id: state.workflow_executions[i] panics out of range.
SelectedInRange(s) == Unwrap(s.selected) \in 0..(Len(s.rows) - 1)

\* Enter in the list view: with a row selected, a WorkflowWidget for its
\* workflow id becomes the active view and is run (the record of an index
\* panic keeps the index).
KeyEnterTable ==
    /\ main.pc = "idle"
    /\ IsTable(view) /\ ~InQueryMode(view)
    /\ IsSome(ctl[view].selected)
    /\ IF ~SelectedInRange(ctl[view])
       THEN /\ main' = [MainPanicked EXCEPT !.sel = ctl[view].selected]
            /\ UNCHANGED <<ctl, chan, task, svc, view>>
       ELSE /\ view < MaxViews
            /\ MaySend
            /\ RunView(view + 1,
                       WorkflowWidgetNew(ctl[view].rows[Unwrap(ctl[view].selected) + 1]))
    /\ UNCHANGED <<overflow_checks, dispatch>>

\* Enter in the detail view: the selection is read ...
KeyEnterWorkflow ==
    /\ main.pc = "idle"
    /\ IsWorkflow(view) /\ Handles(view)
    /\ main' = [MainIdle EXCEPT !.pc = "enter_sel"]
    /\ UNCHANGED <<ctl, chan, task, svc, view, overflow_checks, dispatch>>

\* ... and the selected event, if any, is expanded (display_event_at).
DisplayEvent ==
    /\ main.pc = "enter_final"
    /\ ctl' = [ctl EXCEPT ![view].display_event = IF IsSome(main.sel) THEN main.sel ELSE @]
    /\ main' = MainIdle
    /\ UNCHANGED <<chan, task, svc, view, overflow_checks, dispatch>>

\* Variant: collapsing an event also drops the selection.
KeyEscWorkflowDeselects ==
    /\ main.pc = "idle"
    /\ IsWorkflow(view) /\ Handles(view)
    /\ IF IsSome(ctl[view].display_event)
       THEN /\ ctl' = [ctl EXCEPT ![view].display_event = None, ![view].selected = None]
            /\ UNCHANGED <<chan, task, svc, view, main>>
       ELSE /\ view < MaxViews
            /\ MaySend
            /\ RunView(view + 1, WorkflowTableWidgetNew)
    /\ UNCHANGED <<overflow_checks, dispatch>>

\* Esc in the detail view: an expanded event is collapsed; otherwise a new
\* WorkflowTableWidget is returned, which becomes the active view and is run.
KeyEscWorkflow ==
    /\ main.pc = "idle"
    /\ IsWorkflow(view) /\ Handles(view)
    /\ IF IsSome(ctl[view].display_event)
       THEN /\ ctl' = [ctl EXCEPT ![view].display_event = None]
            /\ UNCHANGED <<chan, task, svc, view, main>>
       ELSE /\ view < MaxViews
            /\ MaySend
            /\ RunView(view + 1, WorkflowTableWidgetNew)
    /\ UNCHANGED <<overflow_checks, dispatch>>

(* --------------------------- specification ----------------------------- *)
TaskStep(c) ==
    \/ TaskRecv(c)
    \/ TaskStart(c)
    \/ TableRpcReturns(c)
    \/ DescribeReturns(c)
    \/ HistoryReturns(c)
    \/ HistoryLoad(c)
    \/ TaskStamp(c)
    \/ TaskStore(c)
    \/ TaskPanic(c)

\* The main task with an operator who reloads, moves down and opens a
\* workflow: the keys that cause fetches.
MainStep ==
    \/ AppRun
    \/ Tick
    \/ KeyReload
    \/ ReloadSendResumes
    \/ KeyNextRow
    \/ LoadNextPage
    \/ LoadNextPageSendResumes
    \/ NextRowLoop
    \/ ReadSelected
    \/ NextRowSelect
    \/ KeyEnterTable
    \/ KeyEscApp
    \/ KeyNotImplemented

Next == MainStep \/ \E c \in Views : TaskStep(c)

Spec == Init /\ [][Next]_vars

\* The same with an operator who also moves up (k / Up).
NextNav == Next \/ KeyPreviousRow \/ PreviousRowSelect

SpecNav == Init /\ [][NextNav]_vars

\* An operator who moves between the views: reloads, opens a workflow,
\* expands and collapses history events, and leaves the detail view.
NextViews ==
    \/ AppRun
    \/ Tick
    \/ KeyReload
    \/ ReloadSendResumes
    \/ KeyEnterTable
    \/ KeyEnterWorkflow
    \/ ReadSelected
    \/ DisplayEvent
    \/ KeyEscWorkflow
    \/ KeyEscApp
    \/ KeyNotImplemented
    \/ \E c \in Views : TaskStep(c)

SpecViews == Init /\ [][NextViews]_vars

(* ------------------- a loaded view and one next_row -------------------- *)
\* A view that has loaded three rows and a cursor with its first reload and
\* whose selection was moved down to the last row.
ScenarioRows == <<"A", "B", "C">>
ScenarioPage == <<"D", "E">>
ScenarioCursor == Some(MaxToken)

LoadedWidget(c) ==
    [Run(IF IsTable(c) THEN WorkflowTableWidgetNew ELSE WorkflowWidgetNew("A"))
        EXCEPT !.rows = ScenarioRows,
               !.token = ScenarioCursor,
               !.selected = Some(Len(ScenarioRows) - 1),
               !.loading_state = "Reloaded",
               !.last_reload = Some(1),
               !.execution = IF IsTable(c) THEN None ELSE Some(1)]

\* The fetch task of a view that has served its first reload.
ServedReload(c, response) == [inflight |-> 0, sent |-> 1, served |-> 1, resp |-> response]

InitLoaded ==
    /\ view \in Views
    /\ ctl = [c \in Views |-> IF c = view THEN LoadedWidget(c)
                              ELSE IF c < view THEN Dropped ELSE Fresh(FALSE, None)]
    /\ chan = [c \in Views |-> <<>>]
    /\ task = [c \in Views |-> IF c <= view THEN TaskSpawned ELSE TaskNotSpawned]
    /\ svc = [c \in Views |->
                IF c = view
                THEN ServedReload(c, [ok |-> TRUE, rows |-> ScenarioRows, token |-> MaxToken,
                                      clear |-> TRUE, n |-> 1,
                                      describe |-> IF IsTable(c) THEN "none" ELSE "ok",
                                      query |-> <<>>])
                ELSE IF c < view THEN ServedReload(c, NoResponse)
                ELSE [inflight |-> 0, sent |-> 0, served |-> 0, resp |-> NoResponse]]
    /\ main = MainIdle
    /\ overflow_checks \in BOOLEAN
    /\ dispatch \in Dispatchers

\* What the service can answer the page request with.
ScenarioResponses ==
    {[ok |-> FALSE, rows |-> <<>>, token |-> EmptyToken]} \cup
    {[ok |-> TRUE, rows |-> r, token |-> t] :
        r \in {<<>>, <<"D">>, ScenarioPage, <<"D", BadRow>>}, t \in Tokens}

ScenarioListReturns(c) ==
    /\ Alive
    /\ IsTable(c)
    /\ task[c].pc = "rpc"
    /\ \E response \in ScenarioResponses : OnListResult(c, response)
    /\ UNCHANGED <<chan, main, view, overflow_checks, dispatch>>

ScenarioHistoryReturns(c) ==
    /\ Alive
    /\ IsWorkflow(c)
    /\ task[c].pc = "rpc"
    /\ \E response \in ScenarioResponses : OnHistoryResult(c, response)
    /\ UNCHANGED <<chan, main, view, overflow_checks, dispatch>>

\* The operator only moves down; the task serves what that enqueues.
NextLoaded ==
    \/ Tick
    \/ KeyNextRow
    \/ LoadNextPage
    \/ NextRowLoop
    \/ ReadSelected
    \/ NextRowSelect
    \/ \E c \in Views :
          \/ TaskRecv(c)
          \/ TaskStart(c)
          \/ ScenarioListReturns(c)
          \/ ScenarioHistoryReturns(c)
          \/ TaskStore(c)
          \/ TaskPanic(c)

SpecLoaded == InitLoaded /\ [][NextLoaded]_vars

\* The same under fair scheduling, every RPC returning (Ok or Err).
LoadedTaskStep(c) ==
    \/ TaskRecv(c)
    \/ TaskStart(c)
    \/ ScenarioListReturns(c)
    \/ ScenarioHistoryReturns(c)
    \/ TaskStore(c)
    \/ TaskPanic(c)

\* The steps by which next_row, once begun, goes on.
LoadedMainContinues ==
    \/ LoadNextPage
    \/ NextRowLoop
    \/ ReadSelected
    \/ NextRowSelect

SpecLoadedFair ==
    /\ InitLoaded /\ [][NextLoaded]_vars
    /\ \A c \in Views : WF_vars(LoadedTaskStep(c))
    /\ WF_vars(LoadedMainContinues)

(* ------------- fair scheduling and a service that answers -------------- *)
\* The list view with every RPC returning Ok and rows that convert.
OkResponses(room) ==
    {response \in Responses(room) :
        response.ok /\ ConvertExecutions(response.rows) # None}

TableRpcReturnsOk(c) ==
    /\ Alive
    /\ IsTable(c)
    /\ task[c].pc = "rpc"
    /\ \E response \in OkResponses(Room(ctl[c], task[c].msg.kind = "Reload")) :
            OnListResult(c, response)
    /\ UNCHANGED <<chan, main, view, overflow_checks, dispatch>>

TaskStepOk(c) ==
    \/ TaskRecv(c)
    \/ TaskStart(c)
    \/ TableRpcReturnsOk(c)
    \/ TaskStamp(c)
    \/ TaskStore(c)

\* The steps by which a handler that has begun goes on.
MainContinues ==
    \/ AppRun
    \/ ReloadSendResumes
    \/ LoadNextPage
    \/ LoadNextPageSendResumes
    \/ NextRowLoop
    \/ NextRowSelect

NextFair ==
    \/ MainContinues
    \/ Tick
    \/ KeyReload
    \/ KeyNextRow
    \/ TaskStepOk(1)

\* tokio schedules a task that can run, and a handler that can go on does.
SpecFair ==
    /\ Init /\ [][NextFair]_vars
    /\ WF_vars(TaskStepOk(1))
    /\ WF_vars(MainContinues)

(* ------------------- the locks of the detail widget -------------------- *)
\* An operator who opens a workflow, reloads and moves down in its history,
\* with is_on_last_row followed lock by lock.
NextLocks ==
    \/ AppRun
    \/ Tick
    \/ KeyReload
    \/ ReloadSendResumes
    \/ KeyEnterTable
    \/ IsOnLastRowRead
    \/ IsOnLastRowSelected
    \/ LoadNextPage
    \/ LoadNextPageSendResumes
    \/ NextRowLoop
    \/ ReadSelected
    \/ NextRowSelect
    \/ KeyEscApp
    \/ KeyNotImplemented
    \/ \E c \in Views : TaskStep(c) \/ HistoryLoadWaits(c)

SpecLocks == Init /\ [][NextLocks]_vars

(* --------------------------- the query filter -------------------------- *)
\* The operator edits the query of the list view with every key QueryInput
\* handles; no request is served meanwhile.
NextQueryInput ==
    \/ AppRun
    \/ Tick
    \/ KeyToggleQuery
    \/ KeyQueryChar
    \/ KeyQueryBackspace
    \/ KeyQueryLeft
    \/ KeyQueryRight

SpecQueryInput == Init /\ [][NextQueryInput]_vars

\* The fetch task of the list view.
TableTaskStep(c) ==
    \/ TaskRecv(c)
    \/ TaskStart(c)
    \/ TableRpcReturns(c)
    \/ TaskStamp(c)
    \/ TaskStore(c)
    \/ TaskPanic(c)

\* The operator types and deletes at the end of the query, reloads and moves
\* down in the list view, while the task serves the requests.
NextQuery ==
    \/ AppRun
    \/ Tick
    \/ KeyToggleQuery
    \/ KeyQueryChar
    \/ KeyQueryBackspace
    \/ KeyReload
    \/ ReloadSendResumes
    \/ KeyNextRow
    \/ LoadNextPage
    \/ LoadNextPageSendResumes
    \/ NextRowLoop
    \/ NextRowSelect
    \/ TableTaskStep(1)

SpecQuery == Init /\ [][NextQuery]_vars

(* ============================== claims ================================= *)
\* The controller whose data the App can read.
Active(c) == c = view

\* The rows a response contributes: the list takes all or nothing, the
\* history skips what does not convert.
RowsOf(c, response) ==
    IF IsTable(c) THEN response.rows
    ELSE SelectSeq(response.rows, LAMBDA e : e # BadRow)

\* The response was one the task applies (no RPC error, nothing malformed
\* that makes the task give up).
Applies(c, response) ==
    /\ response.ok
    /\ IsTable(c) => \A i \in 1..Len(response.rows) : response.rows[i] # BadRow
    /\ IsWorkflow(c) /\ response.clear => response.describe = "ok"

\* The task of c is between dequeuing a request and finishing it.
Busy(c) == task[c].pc \in {"start", "describe", "rpc", "history_load", "loaded", "stamped"}

CursorOf(c, response) ==
    IF IsTable(c) \/ response.token # EmptyToken THEN Some(response.token) ELSE None

\* The request the task of c finished last was a Reload, and svc[c].resp is
\* what it received.
ReloadDone(c) ==
    /\ task[c].pc \in {"recv", "start", "err", "panicked"}
    /\ svc[c].resp.clear
    /\ svc[c].resp.n = svc[c].served

\* C2 as stated: when reload() has enqueued its request and returns, the
\* loading state is already Loading.
C2_LoadingWhenEnqueued ==
    [][\A c \in Views :
          (/\ Len(chan'[c]) = Len(chan[c]) + 1
           /\ chan'[c][Len(chan'[c])].kind = "Reload")
          => ctl'[c].loading_state = "Loading"]_vars

\* C2, amended: reload() only enqueues; the loading state is Loading from
\* the moment the task has dequeued the Reload and issues its first RPC until
\* the request is finished, and a finished Reload leaves Reloaded exactly
\* when its fetch succeeded and Error(message) exactly when it failed.
C2_ReloadStates ==
    \A c \in Views :
        Active(c) =>
            /\ (/\ task[c].msg.kind = "Reload"
                /\ task[c].pc \in {"describe", "rpc", "history_load", "loaded", "stamped"})
               => ctl[c].loading_state = "Loading"
            /\ ReloadDone(c) =>
                  IF Applies(c, svc[c].resp)
                  THEN ctl[c].loading_state = "Reloaded"
                  ELSE ctl[c].loading_state \in ErrorStates

\* A reload asked for by the operator (not the first one of the view) has
\* ended in Reloaded.
C2_Witness ==
    \E c \in Views :
        /\ Active(c) /\ ReloadDone(c) /\ svc[c].served >= 2
        /\ task[c].pc = "recv"
        /\ ctl[c].loading_state = "Reloaded"

\* The step of the task of c that applies the response of a Reload.
ReloadApplied(c) ==
    /\ task[c].msg.kind = "Reload"
    /\ task[c].pc \in {"rpc", "history_load"}
    /\ task'[c].pc = "loaded"

\* C3: the step that applies a reload leaves exactly the rows of its
\* response and the cursor of its response, and while a reload is the latest
\* response no step changes rows or cursor to anything else (there is no
\* state with the one replaced and the other not).
C3_AtomicReplace ==
    [][\A c \in Views :
          (/\ Active(c) /\ view' = view
           /\ \/ ReloadApplied(c)
              \/ /\ svc'[c].resp.clear
                 /\ \/ ctl'[c].rows # ctl[c].rows
                    \/ ctl'[c].token # ctl[c].token)
          => /\ Applies(c, svc'[c].resp)
             /\ ctl'[c].rows = RowsOf(c, svc'[c].resp)
             /\ ctl'[c].token = CursorOf(c, svc'[c].resp)]_vars

\* A reload asked for by the operator has just been applied and left one row.
C3_Witness ==
    \E c \in Views :
        /\ Active(c) /\ task[c].pc = "loaded" /\ task[c].msg.kind = "Reload"
        /\ task[c].msg.n >= 2
        /\ ctl[c].rows = <<"B">> /\ svc[c].resp.rows = <<"B">>

\* The step of the task of c that applies the response of a LoadPage.
PageApplied(c) ==
    /\ task[c].msg.kind = "LoadPage"
    /\ task[c].pc = "rpc"
    /\ task'[c].pc \in {"loaded", "recv"}

\* C4: applying a page keeps the rows loaded before as a prefix and puts the
\* rows of the page after them; no other step changes the rows while a page
\* is the latest response.
C4_AppendKeepsPrefix ==
    [][\A c \in Views :
          (Active(c) /\ view' = view) =>
              /\ PageApplied(c) =>
                    ctl'[c].rows = ctl[c].rows \o RowsOf(c, svc'[c].resp)
              /\ (~svc'[c].resp.clear /\ ctl'[c].rows # ctl[c].rows) =>
                    /\ PageApplied(c)
                    /\ IsPrefix(ctl[c].rows, ctl'[c].rows)]_vars

\* A page of one row has been appended to one loaded row.
C4_Witness ==
    \E c \in Views :
        /\ Active(c) /\ ~svc[c].resp.clear /\ svc[c].resp.ok
        /\ Len(svc[c].resp.rows) = 1 /\ svc[c].resp.rows[1] # BadRow
        /\ Len(ctl[c].rows) = 2
        /\ task[c].pc = "recv"

\* C5 as stated: with a response applied and the task idle, the cursor is
\* None exactly when the response applied last carried an empty token.
C5_ExhaustedIffEmptyToken ==
    \A c \in Views :
        (/\ Active(c)
         /\ task[c].pc = "recv"
         /\ svc[c].resp.n >= 1 /\ svc[c].resp.n = svc[c].served
         /\ Applies(c, svc[c].resp))
        => (ctl[c].token = None <=> svc[c].resp.token = EmptyToken)

\* C6: the steps of a request up to and including the one that records its
\* failure change nothing but the loading state: rows, cursor, selection and
\* execution details stay as they were, and the failing step records Error.
C6_ErrorLeavesData ==
    [][\A c \in Views :
          (/\ Active(c) /\ view' = view
           /\ task'[c] # task[c]
           /\ task[c].pc \in {"start", "describe"} \/ task'[c].pc = "err")
          => /\ ctl'[c].rows = ctl[c].rows
             /\ ctl'[c].token = ctl[c].token
             /\ ctl'[c].selected = ctl[c].selected
             /\ ctl'[c].execution = ctl[c].execution
             /\ task'[c].pc = "err" => ctl'[c].loading_state \in ErrorStates]_vars

\* A request of the detail widget has failed with history, cursor and
\* execution details loaded before.
C6_Witness ==
    \E c \in Views :
        /\ Active(c) /\ IsWorkflow(c)
        /\ task[c].pc = "err"
        /\ ctl[c].loading_state \in ErrorStates
        /\ ctl[c].rows # <<>> /\ IsSome(ctl[c].token) /\ IsSome(ctl[c].execution)

\* C7 as stated: no request of the main task (reload, next page) ever fails
\* to be sent and aborts the loop, whatever fetch failed before.
C7_LoopNeverAborts ==
    ~(main.pc = "panicked" /\ main.msg # NoMessage)

\* C8 as stated: a controller that has recorded Error keeps its task.
C8_KeepsRunning ==
    \A c \in Views :
        (Active(c) /\ ctl[c].loading_state \in ErrorStates) => task[c].pc # "panicked"

\* C9 as stated: load_next_page with a cursor enqueues one LoadPage carrying
\* that cursor (at once, or when the channel has room), and a LoadPage is
\* enqueued by nothing else.
C9_ExactlyOnePageRequest ==
    [][/\ (main.pc = "nr_lnp" /\ IsSome(ctl[view].token) /\ main' # main) =>
            \/ main'.pc = "lnp_send"
            \/ chan'[view] = Append(chan[view],
                                    LoadPage(Unwrap(ctl[view].token), svc[view].sent + 1))
       /\ (main.pc = "lnp_send" /\ main' # main) =>
            chan'[view] = Append(chan[view], main.msg)
       /\ \A c \in Views :
            (/\ Len(chan'[c]) = Len(chan[c]) + 1
             /\ chan'[c][Len(chan'[c])].kind = "LoadPage")
            => /\ Active(c) /\ main.pc \in {"nr_lnp", "lnp_send"}
               /\ main'.pc = "nr_loop"]_vars

\* C10 as stated: once the page next_row asked for is served and the task is
\* idle again, next_row can leave its loop.
C10_ResumesAfterLoad ==
    (/\ main.pc = "nr_loop" /\ main.loading_next
     /\ task[view].pc = "recv" /\ chan[view] = <<>>
     /\ svc[view].served = svc[view].sent)
    => LoopExits(view)

\* The response applied last on c carried an empty continuation token, and
\* nothing is queued or being served.
LastTokenEmpty(c) ==
    /\ task[c].pc = "recv" /\ chan[c] = <<>>
    /\ svc[c].resp.n >= 1 /\ svc[c].resp.n = svc[c].served
    /\ Applies(c, svc[c].resp)
    /\ svc[c].resp.token = EmptyToken

\* C11 as stated: next_row on the last row of a collection whose last
\* response carried an empty token enqueues no request (its load_next_page
\* sends nothing and reports nothing sent), so that it wraps to index 0.
C11_ExhaustedWrapsWithoutFetch ==
    [][(main.pc = "nr_lnp" /\ LastTokenEmpty(view) /\ main' # main)
       => /\ chan' = chan
          /\ main'.pc = "nr_loop" /\ ~main'.loading_next]_vars

\* next_row has completed after the page request was answered with rows
\* [D, E] and an empty token.
ScenarioPageLoaded ==
    /\ main.pc = "idle"
    /\ ctl[view].selected # Some(Len(ScenarioRows) - 1)
    /\ svc[view].resp.n = 2 /\ svc[view].resp.ok
    /\ svc[view].resp.rows = ScenarioPage
    /\ svc[view].resp.token = EmptyToken

\* C12 as stated: from rows [A,B,C], a cursor and selection 2, next_row with
\* a page [D,E] and an empty token ends with rows [A,B,C,D,E], no cursor
\* and selection 3.
C12_ScenarioPage ==
    ScenarioPageLoaded =>
        /\ ctl[view].rows = ScenarioRows \o ScenarioPage
        /\ ctl[view].token = None
        /\ ctl[view].selected = Some(3)

\* A Reload waits in the queue of c behind a page load the task has in hand.
ReloadBehindPage(c) ==
    /\ task[c].msg.kind = "LoadPage"
    /\ task[c].pc \in {"start", "rpc", "err", "loaded"}
    /\ chan[c] # <<>> /\ Head(chan[c]).kind = "Reload"

\* C13 as stated: a Reload enqueued while a page load is in progress is
\* served after it: it leaves the queue only by being received by the task.
C13_ReloadAfterPageServed ==
    [][\A c \in Views :
          (ReloadBehindPage(c) /\ chan'[c] # chan[c] /\ Len(chan'[c]) <= Len(chan[c]))
          => /\ task'[c].pc = "start"
             /\ task'[c].msg = Head(chan[c])]_vars

\* C14 as stated: a selection, when there is one, is the index of a row.
C14_SelectionInRange ==
    \A c \in Views :
        (Active(c) /\ IsSome(ctl[c].selected))
        => Unwrap(ctl[c].selected) \in 0..(Len(ctl[c].rows) - 1)

\* A LoadPage is appended to the queue of c in this step.
PageRequestSent(c) ==
    /\ Len(chan'[c]) = Len(chan[c]) + 1
    /\ chan'[c][Len(chan'[c])].kind = "LoadPage"

\* C15 as stated: while the collection has no rows and nothing is selected,
\* no step (next_row and previous_row among them) selects an index or sends
\* a page request.
C15_EmptyNoOp ==
    [][(/\ view' = view
        /\ ctl[view].rows = <<>> /\ ctl'[view].rows = <<>>
        /\ ctl[view].selected = None)
       => /\ ctl'[view].selected = None
          /\ ~PageRequestSent(view)]_vars

\* The step of previous_row that selects: in the list view previous_row is
\* this one step, in the detail view the selection was read before.
PreviousRowSelects ==
    /\ task' = task /\ view' = view
    /\ \/ main.pc = "pr_final"
       \/ main.pc = "idle" /\ IsTable(view) /\ ctl' # ctl

\* C16: previous_row on a collection with rows selects i - 1 from i > 0 and
\* the last row from 0, and sends nothing: the queues and the service are
\* left alone.
C16_PreviousRow ==
    [][(/\ PreviousRowSelects
        /\ ctl[view].rows # <<>>
        /\ IsSome(SelectionRead(view)))
       => LET i == Unwrap(SelectionRead(view))
          IN  /\ ctl'[view].selected =
                    Some(IF i > 0 THEN i - 1 ELSE Len(ctl[view].rows) - 1)
              /\ main'.pc = "idle"
              /\ chan' = chan /\ svc' = svc]_vars

\* previous_row of the detail view has read index 0 of two rows and is about
\* to select the last one.
C16_Witness ==
    /\ IsWorkflow(view)
    /\ main.pc = "pr_final" /\ main.sel = Some(0)
    /\ Len(ctl[view].rows) = 2

\* C17 as stated: once a page load that succeeded is finished, the loading
\* state is PageLoaded.
C17_PageLoaded ==
    \A c \in Views :
        (/\ Active(c)
         /\ task[c].pc = "recv"
         /\ svc[c].resp.n >= 1 /\ svc[c].resp.n = svc[c].served
         /\ ~svc[c].resp.clear
         /\ Applies(c, svc[c].resp))
        => ctl[c].loading_state = "PageLoaded"

\* C18 as stated: load_next_page without a cursor sends nothing and reports
\* that; with a cursor it sends one LoadPage carrying it (at once, or once
\* the channel has room).
C18_LoadNextPage ==
    [][(main.pc = "nr_lnp" /\ main' # main)
       => IF ctl[view].token = None
          THEN chan' = chan /\ main'.pc = "nr_loop" /\ ~main'.loading_next
          ELSE \/ main'.pc = "lnp_send" /\ main'.msg.token = Unwrap(ctl[view].token)
               \/ /\ PageRequestSent(view)
                  /\ chan'[view][Len(chan'[view])].token = Unwrap(ctl[view].token)
                  /\ main'.loading_next]_vars

\* C19: a step of the main task changes nothing of a widget but its
\* selection, and a step that enqueues a request changes nothing of it.
C19_TaskIsOnlyWriter ==
    [][(task' = task /\ view' = view)
       => \A c \in Views :
            /\ [ctl'[c] EXCEPT !.selected = ctl[c].selected] = ctl[c]
            /\ chan'[c] # chan[c] => ctl'[c] = ctl[c]]_vars

\* reload() has returned with its request queued; the loading state is still
\* that of the reload before.
C19_Witness ==
    /\ main.pc = "idle"
    /\ chan[view] # <<>> /\ Head(chan[view]).kind = "Reload" /\ Head(chan[view]).n >= 2
    /\ ctl[view].loading_state = "Reloaded"
    /\ ctl[view].rows # <<>>

\* Enter was handled in this step: the view was replaced, or indexing the
\* selected row panicked.
EnterHandled ==
    \/ view' # view
    \/ main.pc = "idle" /\ main'.pc = "panicked" /\ IsSome(main'.sel)

\* C20 as stated: Enter in the list view with a selection makes a newly
\* constructed detail widget for the selected row the active view, with its
\* task spawned and its first Reload queued; without a selection the view
\* is not replaced.
C20_EnterOpensWorkflow ==
    [][EnterHandled
       => /\ IsTable(view) /\ IsSome(ctl[view].selected)
          /\ Unwrap(ctl[view].selected) \in 0..(Len(ctl[view].rows) - 1)
          /\ view' = view + 1
          /\ ctl'[view'] =
                Run(WorkflowWidgetNew(ctl[view].rows[Unwrap(ctl[view].selected) + 1]))
          /\ task'[view'] = TaskSpawned
          /\ chan'[view'] = <<Reload(1)>>]_vars

\* Esc is handled in this step for a detail view with no event expanded: the
\* view is replaced, or the application quits (only Esc quits here).
EscHandledInDetail ==
    /\ main.pc = "idle" /\ IsWorkflow(view)
    /\ ctl[view].display_event = None
    /\ view' # view \/ main'.pc = "quit"

\* C21 as stated: Esc in the detail view with no event expanded makes a
\* newly constructed list widget (no rows, no cursor, Idle, no query, no
\* selection) the active view.
C21_EscOpensFreshList ==
    [][EscHandledInDetail
       => /\ view' = view + 1
          /\ main'.pc = "idle"
          /\ ctl'[view'] = Run(WorkflowTableWidgetNew)]_vars

\* C22: Esc in the detail view while an event is expanded changes nothing
\* but display_event, which becomes None: the view stays, nothing is sent,
\* and rows, cursor, loading state and selection are as before.
C22_EscCollapses ==
    [][(/\ main.pc = "idle" /\ IsWorkflow(view)
        /\ IsSome(ctl[view].display_event)
        /\ task' = task
        /\ ctl' # ctl \/ view' # view)
       => /\ view' = view /\ chan' = chan /\ svc' = svc /\ main' = main
          /\ ctl' = [ctl EXCEPT ![view].display_event = None]]_vars

\* An event is expanded while a reload asked for by the operator waits in
\* the queue: the state in which Esc collapses it.
C22_Witness ==
    /\ IsWorkflow(view) /\ main.pc = "idle"
    /\ IsSome(ctl[view].display_event)
    /\ ctl[view].rows # <<>> /\ IsSome(ctl[view].selected)
    /\ chan[view] # <<>> /\ Head(chan[view]).n >= 2

\* C23: before App::run has entered its loop the list view is the active
\* view with a widget as constructed (no rows, no cursor, Idle, no query, no
\* selection, no task), and the one step that leaves this state spawns the
\* task of that widget and queues exactly one Reload: no tick or key is
\* handled before.
C23_InitialListView ==
    [][main.pc = "boot"
       => /\ view = 1 /\ IsTable(view)
          /\ ctl[view] = WorkflowTableWidgetNew
          /\ task[view] = TaskNotSpawned /\ chan[view] = <<>>
          /\ view' = view
          /\ main'.pc = "idle"
          /\ ctl'[view] = Run(WorkflowTableWidgetNew)
          /\ task'[view] = TaskSpawned
          /\ chan'[view] = <<Reload(1)>>
          /\ \A c \in Views \ {view} : chan'[c] = <<>> /\ task'[c] = TaskNotSpawned]_vars

\* App::run has entered its loop: the task of the list view waits with the
\* first Reload in its queue and the widget is as constructed.
C23_Witness ==
    /\ main.pc = "idle" /\ view = 1
    /\ ctl[view] = Run(WorkflowTableWidgetNew)
    /\ task[view] = TaskSpawned
    /\ chan[view] = <<Reload(1)>>

\* C24 as stated: the task of a view that was replaced never terminates
\* and is never sent another request.
C24_PreviousTaskWaits ==
    [][\A c \in Views :
          c < view =>
              /\ task'[c].pc \notin {"none", "panicked"}
              /\ Len(chan'[c]) <= Len(chan[c])]_vars

\* The fetch tasks that exist: spawned and not ended.
LiveTasks == {c \in Views : task[c].pc \notin {"none", "panicked"}}

\* C25 as stated: at most one fetch task exists, and it is the active
\* view's.
C25_OneLiveController ==
    /\ Cardinality(LiveTasks) <= 1
    /\ LiveTasks \subseteq {view}

\* A row of the response does not convert.
HasMalformedRow(response) == \E i \in 1..Len(response.rows) : response.rows[i] = BadRow

\* C26 as stated: when the task receives a response with a malformed row
\* (from an RPC that succeeded, the describe call beside it too), the step
\* adds no row and records Error, and no later step adds rows of it.
C26_MalformedAllOrNothing ==
    [][\A c \in Views :
          (/\ Active(c) /\ view' = view
           /\ task'[c] # task[c]
           /\ svc'[c].resp.ok /\ HasMalformedRow(svc'[c].resp)
           /\ svc'[c].resp.describe \in {"none", "ok"})
          => /\ ctl'[c].rows = ctl[c].rows
             /\ svc'[c].resp # svc[c].resp => ctl'[c].loading_state \in ErrorStates]_vars

\* C27 as stated: while load_next_page waits for room in the queue, holding
\* its read guard, either the send can complete or the task of the view can
\* take its next step.
C27_SendNeverBlocksTask ==
    (main.pc = "lnp_send" /\ task[view].pc # "recv")
    => \/ ENABLED LoadNextPageSendResumes
       \/ ENABLED TaskStep(view)

\* C28 as stated: under fair scheduling and with every RPC succeeding, the
\* n-th request enqueued on the list controller is eventually served.
C28_EveryRequestServed ==
    \A n \in 1..MaxSent : (svc[1].sent >= n) ~> (svc[1].served >= n)

\* C29 as stated: when the detail view can be read (the main task is
\* between two events) and shows the execution details of a reload the
\* operator asked for, whose responses are the latest the task received,
\* the history is the one of that reload's response.
C29_NoMixedSnapshot ==
    \A c \in Views :
        (/\ Active(c) /\ IsWorkflow(c)
         /\ main.pc = "idle"
         /\ svc[c].resp.clear /\ svc[c].resp.n >= 2
         /\ Applies(c, svc[c].resp)
         /\ ctl[c].execution = Some(svc[c].resp.n))
        => ctl[c].rows = RowsOf(c, svc[c].resp)

\* The page the task of c is about to apply was asked for with a token that
\* a Reload, applied right before it, has superseded: the token is not the
\* one that Reload's response carried.
SupersededPage(c) ==
    /\ PageApplied(c)
    /\ svc[c].resp.clear /\ Applies(c, svc[c].resp)
    /\ svc[c].resp.n = task[c].msg.n - 1
    /\ task[c].msg.token # EmptyToken
    /\ task[c].msg.token # svc[c].resp.token

\* C30 as stated: the rows fetched with a superseded token are not appended
\* to the reloaded collection.
C30_StalePageNotAppended ==
    [][\A c \in Views :
          (Active(c) /\ view' = view /\ SupersededPage(c))
          => ctl'[c].rows = ctl[c].rows]_vars

\* C31 as stated: a page request never carries the empty token, and the
\* token a page was fetched with is used up when the page is applied: it is
\* the cursor afterwards only if the response handed it out again.
C31_TokenSentOnce ==
    [][\A c \in Views :
          (Active(c) /\ view' = view) =>
              /\ PageRequestSent(c) => chan'[c][Len(chan'[c])].token # EmptyToken
              /\ (PageApplied(c) /\ ctl'[c].token = Some(task[c].msg.token))
                 => svc'[c].resp.token = task[c].msg.token]_vars

\* t is q without its leading and trailing spaces.
IsTrimOf(t, q) ==
    /\ t # <<>> => t[1] # " " /\ t[Len(t)] # " "
    /\ \E i, j \in 0..Len(q) :
          /\ i + Len(t) + j = Len(q)
          /\ SubSeq(q, i + 1, i + Len(t)) = t
          /\ \A k \in (1..i) \cup ((Len(q) - j + 1)..Len(q)) : q[k] = " "

\* The text in the QueryInput of c (nothing when no query was entered).
Entered(c) == IF IsSome(ctl[c].query) THEN Unwrap(ctl[c].query) ELSE <<>>

\* C32: the step in which the list task issues the RPC of a request, a
\* Reload or a LoadPage, gives it the text of the QueryInput as it is in that
\* step, without leading and trailing spaces (the empty text when no query
\* was entered), and the response is recorded for that text.
C32_RpcCarriesQuery ==
    [][\A c \in Views :
          (IsTable(c) /\ Active(c) /\ view' = view) =>
              /\ (task[c].pc = "start" /\ task'[c].pc = "rpc")
                 => /\ IsTrimOf(task'[c].query, Entered(c))
                    /\ task'[c].msg = task[c].msg
              /\ (task[c].pc = "rpc" /\ task'[c].pc # "rpc")
                 => svc'[c].resp.query = task[c].query]_vars

\* The RPC of a page load is in flight with the text "a" while the
\* QueryInput holds " a" and its sentinel space.
C32_Witness ==
    /\ IsTable(view) /\ task[view].pc = "rpc"
    /\ task[view].msg.kind = "LoadPage"
    /\ task[view].query = <<"a">>
    /\ ctl[view].query = Some(<<" ", "a", " ">>)

\* The page the list task of c is about to apply was asked for with the
\* non-empty token of the response applied right before it.
PageOfLastResponse(c) ==
    /\ IsTable(c) /\ PageApplied(c)
    /\ Applies(c, svc[c].resp)
    /\ svc[c].resp.n = task[c].msg.n - 1
    /\ task[c].msg.token # EmptyToken
    /\ task[c].msg.token = svc[c].resp.token

\* C33 as stated: the rows a page load appends were fetched with the filter
\* text of the response that handed out its token.
C33_PageSameFilter ==
    [][\A c \in Views :
          (/\ Active(c) /\ view' = view
           /\ PageOfLastResponse(c)
           /\ ctl'[c].rows # ctl[c].rows)
          => svc'[c].resp.query = svc[c].resp.query]_vars

\* C34: last_reload is None when the widget is constructed and changes only
\* in the step that stamps a Reload whose response was applied, to the time
\* of that step; it is stamped by the time the state becomes Reloaded.  Page
\* loads, failed fetches and the enqueuing of requests leave it alone.
C34_LastReloadStamp ==
    [][\A c \in Views :
          (Active(c) /\ view' = view) =>
              /\ ctl'[c].last_reload # ctl[c].last_reload
                 => /\ task[c].msg.kind = "Reload"
                    /\ task[c].pc = "loaded" /\ task'[c].pc = "stamped"
                    /\ Applies(c, svc[c].resp) /\ svc[c].resp.n = task[c].msg.n
                    /\ ctl'[c].last_reload = Some(task[c].msg.n)
              /\ (ctl'[c].loading_state = "Reloaded" /\ ctl[c].loading_state # "Reloaded")
                 => ctl'[c].last_reload = Some(task[c].msg.n)
              /\ task[c].pc = "none" => ctl[c].last_reload = None]_vars

\* A page load has been served after the first reload and the timestamp is
\* still that of the reload.
C34_Witness ==
    \E c \in Views :
        /\ Active(c) /\ task[c].pc = "recv"
        /\ ~svc[c].resp.clear /\ svc[c].resp.ok /\ svc[c].resp.n = 2
        /\ svc[c].served = 2
        /\ ctl[c].last_reload = Some(1)

\* C35 as stated: under fair scheduling and with every RPC returning, a
\* controller whose loading state is Loading eventually has Reloaded,
\* PageLoaded or Error.
C35_LoadingIsTransient ==
    \A c \in Views :
        (ctl[c].loading_state = "Loading")
        ~> (ctl[c].loading_state \in {"Reloaded", "PageLoaded"} \cup ErrorStates)

\* C36 as stated: in the detail view the index of the expanded event, when
\* there is one, is the index of a loaded history event.
C36_DisplayEventInRange ==
    \A c \in Views :
        (Active(c) /\ IsWorkflow(c) /\ IsSome(ctl[c].display_event))
        => Unwrap(ctl[c].display_event) \in 0..(Len(ctl[c].rows) - 1)

\* C37 as stated: when the task waits for the workflow write lock while
\* is_on_last_row holds its first read guard, the second read can be taken
\* or the task can go on.
C37_NestedReadNeverDeadlocks ==
    \A c \in Views :
        (Active(c) /\ main.pc = "iol_read" /\ WriterWaits(c))
        => \/ ENABLED IsOnLastRowSelected
           \/ ENABLED TaskStep(c)

\* C38: the step that applies the response of a page load leaves the
\* selection as it is, and the step that applies the response of a reload
\* that succeeded and contributes at least one row selects index 0, in the
\* list and in the detail view.
C38_SelectionOnLoad ==
    [][\A c \in Views :
          (Active(c) /\ view' = view) =>
              /\ PageApplied(c) => ctl'[c].selected = ctl[c].selected
              /\ (/\ ReloadApplied(c)
                  /\ Applies(c, svc'[c].resp)
                  /\ RowsOf(c, svc'[c].resp) # <<>>)
                 => ctl'[c].selected = Some(0)]_vars

\* A reload asked for by the operator has just been applied to a view whose
\* rows it replaced, and index 0 is selected.
C38_Witness ==
    \E c \in Views :
        /\ Active(c) /\ task[c].pc = "loaded" /\ task[c].msg.kind = "Reload"
        /\ task[c].msg.n >= 2
        /\ svc[c].resp.rows # <<>> /\ ctl[c].rows = svc[c].resp.rows
        /\ ctl[c].selected = Some(0)

\* C39 as stated: the cursor of the QueryInput is 0 without a query and an
\* index into the query string (sentinel space included) with one, and no
\* key and no draw panics.
C39_CursorInText ==
    /\ main.pc # "panicked"
    /\ \A c \in Views :
          (Active(c) /\ IsTable(c)) =>
              IF IsSome(ctl[c].query)
              THEN ctl[c].cursor \in 0..(Len(Unwrap(ctl[c].query)) - 1)
              ELSE ctl[c].cursor = 0

\* C40: a request is enqueued on a controller, and sender.unwrap() is
\* reached on it, only with the sender installed and the task spawned; the
\* sender is installed exactly in the step that spawns the controller's task
\* (before which no clone of the controller exists), and a spawned task is
\* never spawned again.
C40_RunOnceBeforeSend ==
    [][\A c \in Views :
          /\ Len(chan'[c]) > Len(chan[c]) =>
                 ctl'[c].sender /\ task'[c].pc # "none"
          /\ (c = view /\ main.pc # "panicked" /\ main'.pc = "panicked"
                /\ main'.msg # NoMessage) =>
                 ctl[c].sender /\ task[c].pc # "none"
          /\ (~ctl[c].sender /\ ctl'[c].sender) <=>
                 (task[c].pc = "none" /\ task'[c].pc # "none")
          /\ task[c].pc # "none" =>
                 task'[c].pc # "none" /\ ctl[c].sender /\ ctl'[c].sender]_vars
\* The detail view opened with Enter was run and then reloaded by a key.
C40_Witness ==
    /\ view = 2 /\ IsWorkflow(view)
    /\ ctl[view].sender /\ task[view].pc # "none"
    /\ svc[view].sent = 2

====
